---- MODULE Spec2Model ----
(***************************************************************************)
(* A model of the snap-and-dock service (SnapService): the registry of     *)
(* windows and groups, window admission from the host runtime, undock,     *)
(* explodeGroup, deregister, the transform / commit handlers and the       *)
(* window-close handler.                                                   *)
(*                                                                         *)
(* SnapService is modelled from its source.  SnapWindow, SnapGroup,        *)
(* Resolver, SnapView, Signal2 and RectUtils are not part of the available *)
(* source; they are modelled from the specification's description of their *)
(* contracts (sections 4.1 - 4.4 and 6).                                   *)
(*                                                                         *)
(* The preview collaborator (Preview: show, hide, applyScopeStyles and the *)
(* transform listener) is modelled from its source as well, under a        *)
(* specification of its own, PreviewSpec.                                  *)
(***************************************************************************)
EXTENDS Integers, Sequences, FiniteSets, Bags, TLC

\* ------------------------------------------------------------------------
\* Program constants
\* ------------------------------------------------------------------------
UNDOCK_MOVE_SCALE == 30

\* `(window as Window & {foo: boolean}).foo`: a property of the global object
\* that no code of the service assigns, hence undefined (falsy).
windowFoo == FALSE

\* ------------------------------------------------------------------------
\* Bounds of the model
\* ------------------------------------------------------------------------
\* SnapWindow objects ever constructed.
MaxWindows == 3
\* SnapGroup objects ever constructed.
MaxGroups == 5

\* The host's applications and windows.
ServiceId == "svc"
Uuids == {"a"}
ChildNames == {"c"}
MainName(uuid) == uuid
Identities == {[uuid |-> u, name |-> n] : u \in Uuids, n \in Uuids \cup ChildNames}

\* ------------------------------------------------------------------------
\* Points and rectangles
\* ------------------------------------------------------------------------
Point(px, py) == [x |-> px, y |-> py]
Rect(cx, cy, hx, hy) == [center |-> Point(cx, cy), halfSize |-> Point(hx, hy)]
NoPoint == [none |-> TRUE]

\* The window states the host reports at registration.
InitRects == {Rect(30, 30, 15, 15)}
\* Displacements and resizes the resolver may ask for.
SnapOffsets == {Point(-30, 0)}
SnapHalfSizes == {Point(15, 10)}
\* Window centres stay within 0..MaxCoord on both axes.
MaxCoord == 60

Abs(n) == IF n < 0 THEN -n ELSE n
\* Math.sign
Sign(n) == IF n > 0 THEN 1 ELSE IF n < 0 THEN -1 ELSE 0

\* RectUtils.distance: per axis, the signed gap between facing edges.
distance(r1, r2) ==
    [x |-> Abs(r1.center.x - r2.center.x) - (r1.halfSize.x + r2.halfSize.x),
     y |-> Abs(r1.center.y - r2.center.y) - (r1.halfSize.y + r2.halfSize.y)]
\* MeasureResult.min: the signed gap on the axis with the smaller gap.
MeasureMin(d) == IF Abs(d.x) <= Abs(d.y) THEN d.x ELSE d.y
\* MeasureResult.minAbs = |min|
MeasureMinAbs(d) == Abs(MeasureMin(d))

\* ------------------------------------------------------------------------
\* State
\* ------------------------------------------------------------------------
VARIABLES
    windows,        \* SnapService.windows: sequence of SnapWindow ids
    groups,         \* SnapService.groups: sequence of SnapGroup ids
    members,        \* SnapGroup.windows of every group constructed so far
    win,            \* the live SnapWindow objects: identity, state, group
    wired,          \* groups carrying the service's five handlers
    closeHandlers,  \* windows carrying the service's onClose handler
    nextGroup,      \* number of SnapGroup objects constructed
    nextWin,        \* number of SnapWindow objects constructed
    hostApps,       \* applications the host runtime has created
    hostWins,       \* child windows the host runtime has created
    allAppsPending, \* getAllApplications callback not yet delivered
    childCbs,       \* bag of pending getChildWindows callbacks, with their results
    createdListeners, \* per uuid: number of 'window-created' listeners
    fetches,        \* bag of identities: pending SnapWindow.getWindowState
    previewWindows,       \* Preview._previewWindows: per preview window, the cached opacity
    activeWindowPreview,  \* Preview._activeWindowPreview
    lastScope,            \* Preview._lastScope
    nativeWindows,        \* the preview windows as the host has them: opacity, bounds, style
    transformListeners    \* DesktopSnapGroup objects carrying Preview.onTransform

vars == <<windows, groups, members, win, wired, closeHandlers, nextGroup, nextWin,
          hostApps, hostWins, allAppsPending, childCbs,
          createdListeners, fetches,
          previewWindows, activeWindowPreview, lastScope, nativeWindows,
          transformListeners>>

serviceVars == <<windows, groups, members, win, wired, closeHandlers, nextGroup, nextWin,
                 hostApps, hostWins, allAppsPending, childCbs,
                 createdListeners, fetches>>

previewVars == <<previewWindows, activeWindowPreview, lastScope, nativeWindows,
                 transformListeners>>

hostVars == <<hostApps, hostWins, allAppsPending, childCbs, createdListeners, fetches>>

NoGroup == 0
NoTarget == [none |-> TRUE]
\* No call of SnapView.update.
NoUpdate == [none |-> TRUE]

\* The service's heap as one value, threaded through the handlers.  Three more
\* fields collect what the running operation does besides writing the heap:
\* the signals it emits on onWindowAdded / onWindowRemoved, its call of
\* SnapView.update, and its calls of calculateOffset.
Heap ==
    [windows |-> windows, groups |-> groups, members |-> members, win |-> win,
     wired |-> wired, closeHandlers |-> closeHandlers, nextGroup |-> nextGroup,
     nextWin |-> nextWin, emitted |-> <<>>, view |-> NoUpdate, measured |-> <<>>]

\* The heap an operation leaves behind (its outputs are not state).
Store(S) ==
    /\ windows' = S.windows
    /\ groups' = S.groups
    /\ members' = S.members
    /\ win' = S.win
    /\ wired' = S.wired
    /\ closeHandlers' = S.closeHandlers
    /\ nextGroup' = S.nextGroup
    /\ nextWin' = S.nextWin

\* ------------------------------------------------------------------------
\* Sequence helpers (Array.prototype)
\* ------------------------------------------------------------------------
Range(s) == {s[i] : i \in 1..Len(s)}
Includes(s, e) == e \in Range(s)
\* indexOf: first index of e, 0 when absent
IndexOf(s, e) == IF Includes(s, e) THEN CHOOSE i \in 1..Len(s) : s[i] = e /\ \A j \in 1..(i - 1) : s[j] # e ELSE 0
\* splice(index, 1)
Splice(s, i) == SubSeq(s, 1, i - 1) \o SubSeq(s, i + 1, Len(s))
Remove(s, e) == IF Includes(s, e) THEN Splice(s, IndexOf(s, e)) ELSE s

\* A test that takes every number for truthy.
AlwaysTruthy(n) == TRUE

\* JS truthiness of a number
Truthy(n) == n # 0

\* ------------------------------------------------------------------------
\* Signals of the service, as seen by an external listener
\* ------------------------------------------------------------------------
\* Signal2.emit on SnapService.onWindowAdded / onWindowRemoved.  The entry
\* keeps what a listener running at that moment can read: the registry, the
\* member lists and every window's getGroup().
Emit(S, type, group, window) ==
    [S EXCEPT !.emitted = Append(@,
        [type |-> type, group |-> group, window |-> window,
         at |-> [groups |-> S.groups, members |-> S.members, win |-> S.win]])]

sendWindowAddedMessage(S, group, window) == Emit(S, "onWindowAdded", group, window)

sendWindowRemovedMessage(S, group, window) == Emit(S, "onWindowRemoved", group, window)

\* ------------------------------------------------------------------------
\* Group registry
\* ------------------------------------------------------------------------
\* SnapGroup.length
GroupLength(S, group) == Len(S.members[group])
\* SnapGroup.windows: a copy of the member list
GroupWindows(S, group) == S.members[group]

\* The group most recently constructed (the value addGroup returns).
LastGroup(S) == S.nextGroup

addGroup(S) ==
    LET group == S.nextGroup + 1
    IN [S EXCEPT !.nextGroup = group,
                 !.members = Append(@, <<>>),
                 !.wired = @ \cup {group},
                 !.groups = Append(@, group)]

\* A removeGroup that detaches the handlers but leaves the registry entry.
removeGroupKeepsEntry(S, group) ==
    LET index == IndexOf(S.groups, group)
    IN IF GroupLength(S, group) = 0 /\ index >= 1
       THEN [S EXCEPT !.wired = @ \ {group}]
       ELSE S

removeGroup(S, group) ==
    LET index == IndexOf(S.groups, group)
    IN IF GroupLength(S, group) = 0 /\ index >= 1
       THEN [S EXCEPT !.wired = @ \ {group},
                      !.groups = Splice(@, index)]
       ELSE S

validateGroup(S, group, modifiedWindow) == S

\* A handler that only forwards the notification.
onWindowRemovedFromGroupOnlyNotifies(S, group, window) ==
    sendWindowRemovedMessage(S, group, window)

onWindowRemovedFromGroup(S, group, window) ==
    LET S1 == IF GroupLength(S, group) = 0 THEN removeGroup(S, group) ELSE S
    IN sendWindowRemovedMessage(S1, group, window)

\* ------------------------------------------------------------------------
\* SnapGroup signals: delivered to the handlers addGroup attached
\* ------------------------------------------------------------------------
GroupEmitWindowRemoved(S, group, window) ==
    IF group \in S.wired THEN onWindowRemovedFromGroup(S, group, window) ELSE S

GroupEmitWindowAdded(S, group, window) ==
    IF group \in S.wired THEN sendWindowAddedMessage(S, group, window) ELSE S

GroupEmitModified(S, group, window) ==
    IF group \in S.wired THEN validateGroup(S, group, window) ELSE S

\* ------------------------------------------------------------------------
\* SnapWindow
\* ------------------------------------------------------------------------
Translate(state, offset) ==
    [state EXCEPT !.center = Point(@.x + offset.x, @.y + offset.y)]

\* SnapWindow.offsetBy
offsetBy(S, window, delta) == [S EXCEPT !.win[window].state = Translate(@, delta)]

\* SnapWindow.setGroup(group, offset?, halfSize?): the back-reference is set,
\* the window leaves its current group (that group's "window removed" fires),
\* joins the new group with its rectangle translated / resized, and the new
\* group's "window added" fires.
setGroup(S, window, group, offset, halfSize) ==
    LET prev == S.win[window].group
        S1 == [S EXCEPT !.win[window].group = group]
        S2 == [S1 EXCEPT !.members[prev] = Remove(@, window)]
        S3 == GroupEmitWindowRemoved(S2, prev, window)
        moved == IF offset = NoPoint THEN S3.win[window].state
                 ELSE Translate(S3.win[window].state, offset)
        sized == IF halfSize = NoPoint THEN moved ELSE [moved EXCEPT !.halfSize = halfSize]
        S4 == [S3 EXCEPT !.members[group] = Append(@, window),
                         !.win[window].state = sized]
    IN IF group = prev THEN S ELSE GroupEmitWindowAdded(S4, group, window)

\* ------------------------------------------------------------------------
\* Repulsion offset
\* ------------------------------------------------------------------------
RECURSIVE calculateOffsetLoop(_, _, _, _)
calculateOffsetLoop(S, window, rest, totalOffset) ==
    IF rest = <<>> THEN totalOffset
    ELSE LET groupedWindow == Head(rest)
             ws == S.win[window].state
             gs == S.win[groupedWindow].state
             d == distance(ws, gs)
             next == IF groupedWindow # window /\ MeasureMinAbs(d) = 0 /\ MeasureMin(d) < 0
                     THEN Point(totalOffset.x + Sign((ws.center.x - gs.center.x) * Abs(d.y)),
                                totalOffset.y + Sign((ws.center.y - gs.center.y) * Abs(d.x)))
                     ELSE totalOffset
         IN calculateOffsetLoop(S, window, Tail(rest), next)

calculateOffset(S, window) ==
    calculateOffsetLoop(S, window, GroupWindows(S, S.win[window].group), Point(0, 0))

\* A call this.calculateOffset(window): its value, the member list it ran
\* over and the number of signals the operation had emitted by then.
callCalculateOffset(S, window) ==
    [S EXCEPT !.measured = Append(@,
        [window |-> window,
         value |-> calculateOffset(S, window),
         against |-> GroupWindows(S, S.win[window].group),
         emittedBefore |-> Len(S.emitted)])]

\* The value of the most recent call.
LastOffset(S) == S.measured[Len(S.measured)].value

\* ------------------------------------------------------------------------
\* Public operations
\* ------------------------------------------------------------------------
IdentityMatches(S, w, target) ==
    target.uuid = S.win[w].identity.uuid /\ target.name = S.win[w].identity.name

NoWindow == 0

\* A lookup that compares the uuid only.
FindWindowByUuid(S, target) ==
    LET hits == {i \in 1..Len(S.windows) : S.win[S.windows[i]].identity.uuid = target.uuid}
    IN IF hits = {} THEN NoWindow
       ELSE S.windows[CHOOSE i \in hits : \A j \in hits : i <= j]

\* this.windows.find(...): the first match, NoWindow when there is none
FindWindow(S, target) ==
    LET hits == {i \in 1..Len(S.windows) : IdentityMatches(S, S.windows[i], target)}
    IN IF hits = {} THEN NoWindow
       ELSE S.windows[CHOOSE i \in hits : \A j \in hits : i <= j]

\* this.groups.find(...): the first group holding a window of that identity
FindGroup(S, target) ==
    LET hits == {i \in 1..Len(S.groups) :
                    \E k \in 1..Len(S.members[S.groups[i]]) :
                        IdentityMatches(S, S.members[S.groups[i]][k], target)}
    IN IF hits = {} THEN NoGroup
       ELSE S.groups[CHOOSE i \in hits : \A j \in hits : i <= j]

undock(S, target) ==
    LET window == FindWindow(S, target)
        group == S.win[window].group
        S0 == callCalculateOffset(S, window)
        offset == LastOffset(S0)
        S1 == addGroup(S0)
        S2 == setGroup(S1, window, LastGroup(S1), NoPoint, NoPoint)
        S3 == offsetBy(S2, window,
                  Point(Sign(IF Truthy(offset.x) THEN offset.x ELSE 1) * UNDOCK_MOVE_SCALE,
                        Sign(IF Truthy(offset.y) THEN offset.y ELSE 1) * UNDOCK_MOVE_SCALE))
    IN IF window # NoWindow THEN GroupEmitModified(S3, group, window) ELSE S

deregister(S, target) == S

\* A second loop that nudges each window the way undock does.
RECURSIVE explodeLoopNudging(_, _, _, _)
explodeLoopNudging(S, wins, offsets, index) ==
    IF index > Len(wins) THEN S
    ELSE LET window == wins[index]
             S1 == addGroup(S)
             S2 == setGroup(S1, window, LastGroup(S1), NoPoint, NoPoint)
             offset == offsets[index]
             S3 == offsetBy(S2, window,
                       Point(Sign(IF Truthy(offset.x) THEN offset.x ELSE 1) * UNDOCK_MOVE_SCALE,
                             Sign(IF Truthy(offset.y) THEN offset.y ELSE 1) * UNDOCK_MOVE_SCALE))
         IN explodeLoopNudging(S3, wins, offsets, index + 1)

RECURSIVE explodeLoop(_, _, _, _)
explodeLoop(S, wins, offsets, index) ==
    IF index > Len(wins) THEN S
    ELSE LET window == wins[index]
             S1 == addGroup(S)
             S2 == setGroup(S1, window, LastGroup(S1), NoPoint, NoPoint)
             offset == offsets[index]
             S3 == offsetBy(S2, window,
                       Point(Sign(offset.x) * (UNDOCK_MOVE_SCALE \div 2),
                             Sign(offset.y) * (UNDOCK_MOVE_SCALE \div 2)))
         IN explodeLoop(S3, wins, offsets, index + 1)

\* The first loop of explodeGroup: one calculateOffset call per window.
RECURSIVE offsetsLoop(_, _, _)
offsetsLoop(S, wins, index) ==
    IF index > Len(wins) THEN S
    ELSE offsetsLoop(callCalculateOffset(S, wins[index]), wins, index + 1)

\* An explodeGroup with a single loop: each offset is calculated just before
\* its window is detached.
RECURSIVE interleavedLoop(_, _, _)
interleavedLoop(S, wins, index) ==
    IF index > Len(wins) THEN S
    ELSE LET window == wins[index]
             S0 == callCalculateOffset(S, window)
             offset == LastOffset(S0)
             S1 == addGroup(S0)
             S2 == setGroup(S1, window, LastGroup(S1), NoPoint, NoPoint)
             S3 == offsetBy(S2, window,
                       Point(Sign(offset.x) * (UNDOCK_MOVE_SCALE \div 2),
                             Sign(offset.y) * (UNDOCK_MOVE_SCALE \div 2)))
         IN interleavedLoop(S3, wins, index + 1)

explodeGroupInterleaved(S, targetWindow) ==
    LET group == FindGroup(S, targetWindow)
        wins == GroupWindows(S, group)
    IN IF group # NoGroup /\ GroupLength(S, group) > 1
       THEN interleavedLoop(S, wins, 1)
       ELSE S

explodeGroup(S, targetWindow) ==
    LET group == FindGroup(S, targetWindow)
        wins == GroupWindows(S, group)
        S0 == offsetsLoop(S, wins, 1)
        offsets == [index \in 1..Len(wins) |-> S0.measured[Len(S.measured) + index].value]
    IN IF group # NoGroup /\ GroupLength(S, group) > 1
       THEN explodeLoop(S0, wins, offsets, 1)
       ELSE S

\* ------------------------------------------------------------------------
\* Transform and commit handlers
\* ------------------------------------------------------------------------
ValidityValues == {"VALID", "INVALID"}

InBounds(state) == state.center.x \in 0..MaxCoord /\ state.center.y \in 0..MaxCoord

\* Resolver.getSnapTarget(this.groups, activeGroup): the results the resolver
\* may return.  Its contract: none, or a target in another registered group,
\* anchored at a window of the active group.
getSnapTarget(S, activeGroup) ==
    {NoTarget} \cup
    {t \in [group : Range(S.groups) \ {activeGroup},
            activeWindow : Range(S.members[activeGroup]),
            snapOffset : SnapOffsets,
            halfSize : {NoPoint} \cup SnapHalfSizes,
            validity : ValidityValues] :
        \A w \in Range(S.members[activeGroup]) :
            InBounds(Translate(S.win[w].state, t.snapOffset))}

\* SnapView.update
viewUpdate(S, activeGroup, target) ==
    [S EXCEPT !.view = [activeGroup |-> activeGroup, target |-> target]]

\* A loop that resizes every window of the active group, not the anchor only.
RECURSIVE applyLoopResizingAll(_, _, _)
applyLoopResizingAll(S, wins, snapTarget) ==
    IF wins = <<>> THEN S
    ELSE applyLoopResizingAll(
             setGroup(S, Head(wins), snapTarget.group, snapTarget.snapOffset,
                      snapTarget.halfSize),
             Tail(wins), snapTarget)

RECURSIVE applyLoop(_, _, _)
applyLoop(S, wins, snapTarget) ==
    IF wins = <<>> THEN S
    ELSE LET window == Head(wins)
             S1 == IF window = snapTarget.activeWindow /\ snapTarget.halfSize # NoPoint
                   THEN setGroup(S, window, snapTarget.group, snapTarget.snapOffset,
                                 snapTarget.halfSize)
                   ELSE setGroup(S, window, snapTarget.group, snapTarget.snapOffset, NoPoint)
         IN applyLoop(S1, Tail(wins), snapTarget)

\* A commit handler that applies whatever target the resolver returns.
applySnapTargetAnyValidity(S, activeGroup, snapTarget) ==
    LET S1 == IF snapTarget # NoTarget
              THEN applyLoop(S, GroupWindows(S, activeGroup), snapTarget)
              ELSE S
    IN viewUpdate(S1, NoGroup, NoTarget)

applySnapTarget(S, activeGroup, snapTarget) ==
    LET S1 == IF snapTarget # NoTarget /\ snapTarget.validity = "VALID" /\ ~windowFoo
              THEN applyLoop(S, GroupWindows(S, activeGroup), snapTarget)
              ELSE S
    IN viewUpdate(S1, NoGroup, NoTarget)

\* A transform handler that already merges the groups.
snapGroupApplying(S, activeGroup, type, snapTarget) ==
    viewUpdate(applySnapTarget(S, activeGroup, snapTarget), activeGroup, snapTarget)

snapGroup(S, activeGroup, type, snapTarget) == viewUpdate(S, activeGroup, snapTarget)

\* ------------------------------------------------------------------------
\* Window close
\* ------------------------------------------------------------------------
\* A close handler that drops the first registry entry, whichever window closed.
onWindowClosedRemovesFirst(S, snapWindow) ==
    LET index == IndexOf(S.windows, snapWindow)
        S1 == [S EXCEPT !.windows = Splice(@, 1),
                        !.closeHandlers = @ \ {snapWindow}]
    IN IF index >= 1 THEN validateGroup(S1, S1.win[snapWindow].group, snapWindow) ELSE S

\* A close handler that detaches itself but leaves the registry entry.
onWindowClosedKeepsEntry(S, snapWindow) ==
    LET index == IndexOf(S.windows, snapWindow)
        S1 == [S EXCEPT !.closeHandlers = @ \ {snapWindow}]
    IN IF index >= 1 THEN validateGroup(S1, S1.win[snapWindow].group, snapWindow) ELSE S

onWindowClosed(S, snapWindow) ==
    LET index == IndexOf(S.windows, snapWindow)
        S1 == [S EXCEPT !.windows = Splice(@, index),
                        !.closeHandlers = @ \ {snapWindow}]
    IN IF index >= 1 THEN validateGroup(S1, S1.win[snapWindow].group, snapWindow) ELSE S

\* SnapGroup's own onClose listener: the group drops the window and fires
\* "window removed".
groupOnWindowClosed(S, window) ==
    LET group == S.win[window].group
        S1 == [S EXCEPT !.members[group] = Remove(@, window)]
    IN GroupEmitWindowRemoved(S1, group, window)

\* SnapWindow.onClose.emit: the group's listener, then the service's.
windowEmitClose(S, window) ==
    LET S1 == groupOnWindowClosed(S, window)
    IN IF window \in S1.closeHandlers THEN onWindowClosed(S1, window) ELSE S1

\* ------------------------------------------------------------------------
\* Window admission
\* ------------------------------------------------------------------------
\* new SnapWindow(group, window, state): the window joins `group`, whose
\* "window added" fires.
newSnapWindow(S, group, identity, state) ==
    LET w == S.nextWin + 1
        S1 == [S EXCEPT !.nextWin = w,
                        !.win = @ @@ (w :> [identity |-> identity, state |-> state,
                                            group |-> group]),
                        !.members[group] = Append(@, w)]
    IN GroupEmitWindowAdded(S1, group, w)

\* The continuation of addWindow, run when getWindowState resolves.
addWindowThen(S, identity, state) ==
    LET S1 == addGroup(S)
        S2 == newSnapWindow(S1, LastGroup(S1), identity, state)
        snapWindow == S2.nextWin
    IN [S2 EXCEPT !.closeHandlers = @ \cup {snapWindow},
                  !.windows = Append(@, snapWindow)]

\* SnapWindow.getWindowState failed.
Failed == [failed |-> TRUE]

\* An addWindow that registers the window although its state is unknown.
addWindowSettledRegistersAnyway(S, identity, outcome) ==
    IF outcome = Failed
    THEN [heap |-> addWindowThen(S, identity, CHOOSE state \in InitRects : TRUE),
          promise |-> "fulfilled"]
    ELSE [heap |-> addWindowThen(S, identity, outcome), promise |-> "fulfilled"]

\* addWindow once getWindowState has settled: the heap it leaves and the
\* promise it returned.  `.then` has no rejection handler, so a failure
\* skips the continuation and rejects the promise.
addWindowSettled(S, identity, outcome) ==
    IF outcome = Failed
    THEN [heap |-> S, promise |-> "rejected"]
    ELSE [heap |-> addWindowThen(S, identity, outcome), promise |-> "fulfilled"]

MainWindow(uuid) == [uuid |-> uuid, name |-> MainName(uuid)]
ChildIdentities == {[uuid |-> u, name |-> n] : u \in Uuids, n \in ChildNames}
ChildWindows(uuid) == {id \in hostWins : id.uuid = uuid}

\* The host-facing state as one value: in-flight fetches, pending
\* getChildWindows callbacks, 'window-created' listeners.
Host == [fetches |-> fetches, childCbs |-> childCbs, createdListeners |-> createdListeners]

StoreHost(H) ==
    /\ fetches' = H.fetches
    /\ childCbs' = H.childCbs
    /\ createdListeners' = H.createdListeners

\* addWindow up to its asynchronous step: SnapWindow.getWindowState is in flight.
addWindow(H, identity) == [H EXCEPT !.fetches = @ (+) SetToBag({identity})]

\* forEach over a collection of windows, each passed to addWindow
RECURSIVE addWindowEach(_, _)
addWindowEach(H, ids) ==
    IF ids = {} THEN H
    ELSE LET id == CHOOSE i \in ids : TRUE
         IN addWindowEach(addWindow(H, id), ids \ {id})

\* One addWindow per 'window-created' listener attached to the application.
RECURSIVE addWindowTimes(_, _, _)
addWindowTimes(H, identity, n) ==
    IF n = 0 THEN H ELSE addWindowTimes(addWindow(H, identity), identity, n - 1)

\* registerApplication: the main window is passed to addWindow, getChildWindows
\* is requested (the host answers with the children it has at the request) and
\* one more 'window-created' listener is attached to the application.
registerApplication(H, uuid) ==
    LET H1 == addWindow(H, MainWindow(uuid))
        H2 == [H1 EXCEPT !.childCbs =
                  @ (+) SetToBag({[uuid |-> uuid, children |-> ChildWindows(uuid)]})]
    IN [H2 EXCEPT !.createdListeners[uuid] = @ + 1]

RECURSIVE registerEach(_, _)
registerEach(H, apps) ==
    IF apps = {} THEN H
    ELSE LET app == CHOOSE a \in apps : TRUE
             H1 == IF app # ServiceId THEN registerApplication(H, app) ELSE H
         IN registerEach(H1, apps \ {app})

BagRemove(B, e) == B (-) SetToBag({e})

\* A getWindowState request has settled, either way: it is no longer pending.
fetchSettled(H, identity) == [H EXCEPT !.fetches = BagRemove(@, identity)]

\* Room for n more SnapWindow objects, counting the fetches in flight.
Room(n) == nextWin + BagCardinality(fetches) + n <= MaxWindows

\* ------------------------------------------------------------------------
\* Preview: the visual indicator of the current snap or tab target
\* ------------------------------------------------------------------------
\* PreviewMap: one entry per preview type and validity.
PreviewTypes == {"snap", "tab"}
Validities == {"valid", "invalid"}

\* The types of a previewable target.
TargetTypes == {"SNAP", "TAB"}
\* String.prototype.toLowerCase on a target type.
toLowerCase(s) == CASE s = "SNAP" -> "snap" [] s = "TAB" -> "tab" [] OTHER -> s

\* The scope of a window, and the scopes the targets and groups may carry.
WindowScope(identity) ==
    [level |-> "window", uuid |-> identity.uuid, name |-> identity.name]
Scopes == {WindowScope(identity) : identity \in Identities}
\* _lastScope before its first assignment.
NoScope == [none |-> TRUE]
\* _activeWindowPreview = null
NoPreview == [none |-> TRUE]
NoTabGroup == [none |-> TRUE]

\* fast-deep-equal: structural equality.
deepEqual(a, b) == a = b

\* One overlay of the preview configuration (opacity in percent).
Overlay(opacity, background, border) ==
    [opacity |-> opacity, background |-> background, border |-> border]

\* ConfigStore.query(scope).preview: the overlays a scope is configured with.
\* The scope of an application's main window has the same overlay for every
\* key; the scope of a child window overrides three of the four.
ConfigQuery(scope) ==
    IF scope.name = MainName(scope.uuid)
    THEN [snap |-> [valid   |-> Overlay(80, "green", "solid"),
                    invalid |-> Overlay(80, "red", "solid")],
          tab  |-> [valid   |-> Overlay(80, "green", "solid"),
                    invalid |-> Overlay(80, "red", "solid")]]
    ELSE [snap |-> [valid   |-> Overlay(50, "blue", "dashed"),
                    invalid |-> Overlay(0, "grey", "dashed")],
          tab  |-> [valid   |-> Overlay(50, "blue", "dashed"),
                    invalid |-> Overlay(80, "red", "solid")]]

\* The preview window named preview-<previewType>-<validity>.
PreviewWindow(previewType, validity) ==
    [previewType |-> previewType, validity |-> validity]
PreviewWindowNames ==
    {PreviewWindow(previewType, validity) :
        previewType \in PreviewTypes, validity \in Validities}

\* createWindow, once the host has created the window and its callback has
\* moved it off screen: transparent, 320 by 320, blank.
createWindow ==
    [opacity |-> 0,
     bounds |-> [left |-> -10000, top |-> -10000, width |-> 320, height |-> 320],
     background |-> "", border |-> ""]

\* createPreviewMap with the constructor's callback.
createPreviewMap ==
    [previewType \in PreviewTypes |->
        [validity \in Validities |->
            [previewWindow |-> PreviewWindow(previewType, validity), opacity |-> 0]]]

\* The Preview object and its windows as one value, threaded through its methods.
PreviewHeap ==
    [previewWindows |-> previewWindows, activeWindowPreview |-> activeWindowPreview,
     lastScope |-> lastScope, nativeWindows |-> nativeWindows,
     transformListeners |-> transformListeners]

StorePreview(P) ==
    /\ previewWindows' = P.previewWindows
    /\ activeWindowPreview' = P.activeWindowPreview
    /\ lastScope' = P.lastScope
    /\ nativeWindows' = P.nativeWindows
    /\ transformListeners' = P.transformListeners

\* fin.OpenFinWindow.updateOptions({opacity})
updateOptions(P, previewWindow, opacity) ==
    [P EXCEPT !.nativeWindows[previewWindow].opacity = opacity]

\* fin.OpenFinWindow.setBounds(left, top, width, height)
setBounds(P, previewWindow, left, top, width, height) ==
    [P EXCEPT !.nativeWindows[previewWindow].bounds =
        [left |-> left, top |-> top, width |-> width, height |-> height]]

\* applyScopeStyles: unless the scope is the one applied last, cache every
\* overlay's opacity and style every preview window.
applyScopeStyles(P, scope) ==
    IF deepEqual(P.lastScope, scope) THEN P
    ELSE LET query == ConfigQuery(scope)
         IN [P EXCEPT
                !.previewWindows =
                    [previewKey \in PreviewTypes |->
                        [validity \in Validities |->
                            [P.previewWindows[previewKey][validity] EXCEPT
                                !.opacity = query[previewKey][validity].opacity]]],
                !.nativeWindows =
                    [w \in PreviewWindowNames |->
                        [P.nativeWindows[w] EXCEPT
                            !.background = query[w.previewType][w.validity].background,
                            !.border = query[w.previewType][w.validity].border]],
                !.lastScope = scope]

\* generatePreviewRect
generatePreviewRect(target) ==
    IF target.type = "SNAP"
    THEN LET activeState == target.activeWindow.currentState
             prevHalfSize == activeState.halfSize
             halfSize == IF target.halfSize # NoPoint THEN target.halfSize ELSE prevHalfSize
             center == Point(activeState.center.x + target.offset.x + (halfSize.x - prevHalfSize.x),
                             activeState.center.y + target.offset.y + (halfSize.y - prevHalfSize.y))
         IN [center |-> center, halfSize |-> halfSize]
    ELSE target.dropArea

\* positionPreview
positionPreview(P, previewWindow, target) ==
    LET previewRect == generatePreviewRect(target)
    IN setBounds(P, previewWindow,
                 previewRect.center.x - previewRect.halfSize.x,
                 previewRect.center.y - previewRect.halfSize.y,
                 previewRect.halfSize.x * 2,
                 previewRect.halfSize.y * 2)

\* hide
hide(P) ==
    IF P.activeWindowPreview # NoPreview
    THEN [updateOptions(P, P.activeWindowPreview, 0) EXCEPT !.activeWindowPreview = NoPreview]
    ELSE P

\* A show that makes the target's preview window the active one without
\* hiding the window that was active.
showWithoutHiding(P, target) ==
    LET valid == IF target.valid THEN "valid" ELSE "invalid"
        previewType == toLowerCase(target.type)
        previewWindow == P.previewWindows[previewType][valid].previewWindow
        opacity == P.previewWindows[previewType][valid].opacity
        P1 == applyScopeStyles(P, target.activeWindow.scope)
        P2 == positionPreview(P1, previewWindow, target)
        P3 == updateOptions(P2, previewWindow, opacity)
    IN [P3 EXCEPT !.activeWindowPreview = previewWindow]

\* show: the cached opacity is read, then the scope styles are applied, the
\* window is positioned and given the opacity read at the start.
show(P, target) ==
    LET valid == IF target.valid THEN "valid" ELSE "invalid"
        previewType == toLowerCase(target.type)
        previewWindow == P.previewWindows[previewType][valid].previewWindow
        opacity == P.previewWindows[previewType][valid].opacity
        P1 == applyScopeStyles(P, target.activeWindow.scope)
        P2 == positionPreview(P1, previewWindow, target)
        P3 == updateOptions(P2, previewWindow, opacity)
    IN IF previewWindow # P3.activeWindowPreview
       THEN [hide(P3) EXCEPT !.activeWindowPreview = previewWindow]
       ELSE P3

\* onCreated: the new group's onTransform gets the preview's listener.
onCreated(P, group) == [P EXCEPT !.transformListeners = @ \cup {group}]

\* onTransform
onTransform(P, activeGroup, type) ==
    LET target == activeGroup.windows[1]
        scope == IF target.tabGroup # NoTabGroup
                 THEN target.tabGroup.activeTab.scope ELSE target.scope
    IN applyScopeStyles(P, scope)

\* The targets handed to show.
ActiveWindows == [scope : Scopes, currentState : InitRects]
DropAreas == {Rect(30, 10, 15, 5)}
SnapTargets ==
    [type : {"SNAP"}, valid : BOOLEAN, activeWindow : ActiveWindows,
     offset : SnapOffsets, halfSize : SnapHalfSizes \cup {NoPoint}]
TabTargets ==
    [type : {"TAB"}, valid : BOOLEAN, activeWindow : ActiveWindows, dropArea : DropAreas]
PreviewableTargets == SnapTargets \cup TabTargets

\* The windows a transforming group may have first.
TabGroups == {[activeTab |-> [scope |-> scope]] : scope \in Scopes}
DesktopWindows == [scope : Scopes, tabGroup : TabGroups \cup {NoTabGroup}]
\* DesktopSnapGroup objects, by number.
DesktopSnapGroups == 1..MaxGroups

\* ------------------------------------------------------------------------
\* Initial state: the service and the preview have just been constructed
\* ------------------------------------------------------------------------
Init ==
    /\ windows = <<>>
    /\ groups = <<>>
    /\ members = <<>>
    /\ win = <<>>
    /\ wired = {}
    /\ closeHandlers = {}
    /\ nextGroup = 0
    /\ nextWin = 0
    /\ hostApps \in {{ServiceId} \cup A : A \in SUBSET Uuids}
    /\ hostWins \in SUBSET {id \in ChildIdentities : id.uuid \in hostApps}
    /\ allAppsPending = TRUE
    /\ childCbs = EmptyBag
    /\ createdListeners = [u \in Uuids |-> 0]
    /\ fetches = EmptyBag
    /\ previewWindows = createPreviewMap
    /\ activeWindowPreview = NoPreview
    /\ lastScope = NoScope
    /\ nativeWindows = [w \in PreviewWindowNames |-> createWindow]
    /\ transformListeners = {}

\* ------------------------------------------------------------------------
\* Host events and callbacks
\* ------------------------------------------------------------------------
\* The host starts an application; the 'application-created' listener runs.
ApplicationCreated(uuid) ==
    /\ uuid \notin hostApps
    /\ Room(1)
    /\ hostApps' = hostApps \cup {uuid}
    /\ StoreHost(registerApplication(Host, uuid))
    /\ Store(Heap)
    /\ UNCHANGED <<hostWins, allAppsPending>>
    /\ UNCHANGED previewVars

\* The callback of fin.desktop.System.getAllApplications.
AllApplicationsCallback ==
    /\ allAppsPending
    /\ Room(Cardinality(hostApps \ {ServiceId}))
    /\ allAppsPending' = FALSE
    /\ StoreHost(registerEach(Host, hostApps))
    /\ Store(Heap)
    /\ UNCHANGED <<hostApps, hostWins>>
    /\ UNCHANGED previewVars

\* The callback of app.getChildWindows.
ChildWindowsCallback(cb) ==
    /\ BagIn(cb, childCbs)
    /\ Room(Cardinality(cb.children))
    /\ StoreHost(addWindowEach([Host EXCEPT !.childCbs = BagRemove(@, cb)], cb.children))
    /\ Store(Heap)
    /\ UNCHANGED <<hostApps, hostWins, allAppsPending>>
    /\ UNCHANGED previewVars

\* The host creates a child window; every 'window-created' listener of its
\* application runs.
WindowCreated(identity) ==
    /\ identity.uuid \in hostApps
    /\ identity \notin hostWins
    /\ Room(createdListeners[identity.uuid])
    /\ hostWins' = hostWins \cup {identity}
    /\ StoreHost(addWindowTimes(Host, identity, createdListeners[identity.uuid]))
    /\ Store(Heap)
    /\ UNCHANGED <<hostApps, allAppsPending>>
    /\ UNCHANGED previewVars

\* SnapWindow.getWindowState resolves: the continuation of addWindow runs.
WindowStateResolved(identity, state) ==
    /\ BagIn(identity, fetches)
    /\ nextGroup < MaxGroups
    /\ StoreHost(fetchSettled(Host, identity))
    /\ Store(addWindowSettled(Heap, identity, state).heap)
    /\ UNCHANGED <<hostApps, hostWins, allAppsPending>>
    /\ UNCHANGED previewVars

\* SnapWindow.getWindowState fails: the promise of addWindow is rejected.
WindowStateRejected(identity) ==
    /\ BagIn(identity, fetches)
    /\ StoreHost(fetchSettled(Host, identity))
    /\ Store(addWindowSettled(Heap, identity, Failed).heap)
    /\ UNCHANGED <<hostApps, hostWins, allAppsPending>>
    /\ UNCHANGED previewVars

\* The host closes a window: its SnapWindow fires onClose and is dropped.
WindowClosed(window) ==
    /\ window \in DOMAIN win
    /\ LET S == windowEmitClose(Heap, window)
       IN Store([S EXCEPT !.win = [w \in DOMAIN S.win \ {window} |-> S.win[w]]])
    /\ UNCHANGED hostVars
    /\ UNCHANGED previewVars

\* ------------------------------------------------------------------------
\* Service calls and group signals
\* ------------------------------------------------------------------------
Undock(target) ==
    /\ FindWindow(Heap, target) # NoWindow => nextGroup < MaxGroups
    /\ LET S == undock(Heap, target)
       IN /\ \A w \in DOMAIN S.win : InBounds(S.win[w].state)
          /\ Store(S)
    /\ UNCHANGED hostVars
    /\ UNCHANGED previewVars

Deregister(target) ==
    /\ Store(deregister(Heap, target))
    /\ UNCHANGED hostVars
    /\ UNCHANGED previewVars

ExplodeGroup(target) ==
    /\ LET group == FindGroup(Heap, target)
       IN group # NoGroup => nextGroup + GroupLength(Heap, group) <= MaxGroups
    /\ LET S == explodeGroup(Heap, target)
       IN /\ \A w \in DOMAIN S.win : InBounds(S.win[w].state)
          /\ Store(S)
    /\ UNCHANGED hostVars
    /\ UNCHANGED previewVars

TransformTypes == {1, 2, 3}

\* A group fires onTransform during a drag; the resolver answers snapTarget.
TransformWith(activeGroup, type, snapTarget) ==
    /\ activeGroup \in wired
    /\ snapTarget \in getSnapTarget(Heap, activeGroup)
    /\ Store(snapGroup(Heap, activeGroup, type, snapTarget))
    /\ UNCHANGED hostVars
    /\ UNCHANGED previewVars

Transform(activeGroup, type) ==
    \E snapTarget \in getSnapTarget(Heap, activeGroup) :
        TransformWith(activeGroup, type, snapTarget)

\* A group fires onCommit when the drag ends; the resolver answers snapTarget.
CommitWith(activeGroup, snapTarget) ==
    /\ activeGroup \in wired
    /\ snapTarget \in getSnapTarget(Heap, activeGroup)
    /\ Store(applySnapTarget(Heap, activeGroup, snapTarget))
    /\ UNCHANGED hostVars
    /\ UNCHANGED previewVars

Commit(activeGroup) ==
    \E snapTarget \in getSnapTarget(Heap, activeGroup) : CommitWith(activeGroup, snapTarget)

Next ==
    \/ \E uuid \in Uuids : ApplicationCreated(uuid)
    \/ AllApplicationsCallback
    \/ \E cb \in BagToSet(childCbs) : ChildWindowsCallback(cb)
    \/ \E identity \in ChildIdentities : WindowCreated(identity)
    \/ \E identity \in Identities, state \in InitRects : WindowStateResolved(identity, state)
    \/ \E identity \in Identities : WindowStateRejected(identity)
    \/ \E window \in DOMAIN win : WindowClosed(window)
    \/ \E target \in Identities : Undock(target)
    \/ \E target \in Identities : Deregister(target)
    \/ \E target \in Identities : ExplodeGroup(target)
    \/ \E activeGroup \in Range(groups), type \in TransformTypes : Transform(activeGroup, type)
    \/ \E activeGroup \in Range(groups) : Commit(activeGroup)

Spec == Init /\ [][Next]_vars

\* ------------------------------------------------------------------------
\* The preview under its callers
\* ------------------------------------------------------------------------
\* A drag has a candidate target: the preview is asked to show it.
Show(target) ==
    /\ StorePreview(show(PreviewHeap, target))
    /\ UNCHANGED serviceVars

\* The drag has no target any more, or has ended.
Hide ==
    /\ StorePreview(hide(PreviewHeap))
    /\ UNCHANGED serviceVars

\* DesktopSnapGroup.onCreated fires for a new group.
GroupCreated ==
    /\ Cardinality(transformListeners) < MaxGroups
    /\ StorePreview(onCreated(PreviewHeap, Cardinality(transformListeners) + 1))
    /\ UNCHANGED serviceVars

\* A group fires onTransform; `first` is the first of its windows.
OnTransform(group, first, type) ==
    /\ group \in transformListeners
    /\ StorePreview(onTransform(PreviewHeap, [windows |-> <<first>>], type))
    /\ UNCHANGED serviceVars

PreviewNext ==
    \/ \E target \in PreviewableTargets : Show(target)
    \/ Hide
    \/ GroupCreated
    \/ \E group \in DesktopSnapGroups, first \in DesktopWindows, type \in TransformTypes :
          OnTransform(group, first, type)

\* No application is running beside the service itself.
PreviewInit == Init /\ hostApps = {ServiceId} /\ hostWins = {}

PreviewSpec == PreviewInit /\ [][PreviewNext]_vars

\* ------------------------------------------------------------------------
\* Vocabulary of the properties
\* ------------------------------------------------------------------------
Registered(g) == Includes(groups, g)

\* The registered windows carrying the identity `target`.
WindowsOf(target) == {w \in Range(windows) : IdentityMatches(Heap, w, target)}

\* The groups whose member list holds w.
HoldersOf(w) == {g \in 1..Len(members) : Includes(members[g], w)}

\* No two entries of the window registry carry the same (uuid, name).
IdentitiesUnique ==
    \A i, j \in 1..Len(windows) :
        win[windows[i]].identity = win[windows[j]].identity => i = j

\* The operation that produced S changed neither registry, no membership,
\* no window, and constructed no group.
SameHeap(S) ==
    /\ S.windows = windows
    /\ S.groups = groups
    /\ S.members = members
    /\ S.win = win
    /\ S.nextGroup = nextGroup

\* In S, group g of the current state is gone from the registry and each of
\* its windows is the sole member of a registered group.
ExplodedIn(S, g) ==
    /\ ~Includes(S.groups, g)
    /\ \A w \in Range(members[g]) :
          /\ Includes(S.groups, S.win[w].group)
          /\ S.members[S.win[w].group] = <<w>>

\* ------------------------------------------------------------------------
\* C1: for every registered group G with N > 1 windows and every identity of
\* a member of G passed to explodeGroup, after the call each of the N windows
\* is the sole member of its own registered group and G is not registered.
\* ------------------------------------------------------------------------
C1_ExplodeEveryMemberIdentity ==
    \A target \in Identities : \A g \in Range(groups) :
        (Len(members[g]) > 1 /\ \E w \in Range(members[g]) : IdentityMatches(Heap, w, target))
            => ExplodedIn(explodeGroup(Heap, target), g)

\* The same statement restricted to states whose registry holds every
\* identity once.
C1_ExplodeWhenIdentitiesUnique == IdentitiesUnique => C1_ExplodeEveryMemberIdentity

\* A state where explodeGroup splits a group of at least two windows.
C1_Witness ==
    \E target \in Identities :
        LET g == FindGroup(Heap, target)
        IN g # NoGroup /\ Len(members[g]) > 1 /\ ExplodedIn(explodeGroup(Heap, target), g)

\* ------------------------------------------------------------------------
\* C2: after a commit whose snap target is VALID, merging active group A
\* (k windows) into target group B (m windows), B holds exactly k+m windows,
\* the former members of A and of B; A is empty and not registered.
\* ------------------------------------------------------------------------
C2_ValidCommitMerges ==
    \A a \in Range(groups) : \A t \in getSnapTarget(Heap, a) :
        (t # NoTarget /\ t.validity = "VALID") =>
            LET S == applySnapTarget(Heap, a, t)
            IN /\ Len(S.members[t.group]) = Len(members[a]) + Len(members[t.group])
               /\ Range(S.members[t.group]) = Range(members[a]) \cup Range(members[t.group])
               /\ S.members[a] = <<>>
               /\ ~Includes(S.groups, a)

\* A group of two windows is about to be merged into another group by a
\* VALID commit.
C2_Witness ==
    \E a \in Range(groups) : \E t \in getSnapTarget(Heap, a) :
        /\ t # NoTarget /\ t.validity = "VALID"
        /\ Len(members[a]) = 2
        /\ Len(applySnapTarget(Heap, a, t).members[t.group]) = 3

\* ------------------------------------------------------------------------
\* C3: in every reachable state no registered group has zero windows (the
\* operation that removes a group's last window also removes the group).
\* ------------------------------------------------------------------------
C3_NoEmptyRegisteredGroup == \A g \in Range(groups) : Len(members[g]) > 0

\* A group has lost its last window and left the registry while other
\* groups remain.
C3_Witness ==
    /\ groups # <<>>
    /\ \E g \in 1..nextGroup : members[g] = <<>> /\ ~Registered(g)

\* ------------------------------------------------------------------------
\* C4: in every reachable state every registered window is a member of
\* exactly one group, that group is registered and is the window's
\* getGroup(); no window appears in two groups' member lists.
\* ------------------------------------------------------------------------
C4_WindowInExactlyOneGroup ==
    /\ \A w \in Range(windows) :
          /\ w \in DOMAIN win
          /\ HoldersOf(w) = {win[w].group}
          /\ Registered(win[w].group)
          /\ Cardinality({i \in 1..Len(members[win[w].group]) :
                             members[win[w].group][i] = w}) = 1
    /\ \A g, h \in 1..Len(members) :
          g # h => Range(members[g]) \cap Range(members[h]) = {}

\* Windows have been merged into one group and another window has closed.
C4_Witness ==
    /\ nextWin > Len(windows)
    /\ \E g \in Range(groups) : Len(members[g]) >= 2

\* ------------------------------------------------------------------------
\* C5: explodeGroup called with an identity that matches no registered
\* window, or with a window whose group has exactly one window, leaves both
\* registries, every membership and every window unchanged and creates no
\* group.
\* ------------------------------------------------------------------------
C5_ExplodeWithoutEffect ==
    \A target \in Identities :
        (\/ WindowsOf(target) = {}
         \/ \E w \in WindowsOf(target) : Len(members[win[w].group]) = 1)
            => SameHeap(explodeGroup(Heap, target))

\* The same statement restricted to states whose registry holds every
\* identity once.
C5_ExplodeWithoutEffectWhenIdentitiesUnique == IdentitiesUnique => C5_ExplodeWithoutEffect

\* ------------------------------------------------------------------------
\* C6: undock called with an identity that matches no registered window
\* leaves the number of registered windows and groups, all memberships and
\* all windows unchanged, and emits no notification.
\* ------------------------------------------------------------------------
C6_UndockUnknownIdentity ==
    \A target \in Identities :
        WindowsOf(target) = {} =>
            LET S == undock(Heap, target)
            IN /\ Len(S.windows) = Len(windows)
               /\ Len(S.groups) = Len(groups)
               /\ S.members = members
               /\ S.win = win
               /\ S.emitted = <<>>

\* Windows are registered, and undock is called with an identity none of
\* them carries.
C6_Witness ==
    /\ windows # <<>>
    /\ \E target \in Identities : WindowsOf(target) = {} /\ SameHeap(undock(Heap, target))

\* ------------------------------------------------------------------------
\* C7: undock of a registered window w of group G ends with w as the only
\* member of a registered group that did not exist before, and with G
\* holding its former members minus w; if G had only w it leaves the
\* registry (group count unchanged), otherwise the group count rises by one.
\* ------------------------------------------------------------------------
C7_UndockIsolatesWindow ==
    \A w \in Range(windows) :
        LET G == win[w].group
            S == undock(Heap, win[w].identity)
            H == S.win[w].group
        IN /\ H \notin 1..nextGroup
           /\ Includes(S.groups, H)
           /\ S.members[H] = <<w>>
           /\ S.members[G] = Remove(members[G], w)
           /\ IF Len(members[G]) = 1
              THEN ~Includes(S.groups, G) /\ Len(S.groups) = Len(groups)
              ELSE Includes(S.groups, G) /\ Len(S.groups) = Len(groups) + 1

\* The same statement restricted to states whose registry holds every
\* identity once.
C7_UndockWhenIdentitiesUnique == IdentitiesUnique => C7_UndockIsolatesWindow

\* ------------------------------------------------------------------------
\* C8: deregister(identity) for a registered window removes the window from
\* the window registry and from its group, and removes the group from the
\* group registry if it thereby becomes empty.
\* ------------------------------------------------------------------------
C8_DeregisterRemovesWindow ==
    \A target \in Identities : \A w \in WindowsOf(target) :
        LET S == deregister(Heap, target)
            G == win[w].group
        IN /\ ~Includes(S.windows, w)
           /\ ~Includes(S.members[G], w)
           /\ S.members[G] = <<>> => ~Includes(S.groups, G)

\* ------------------------------------------------------------------------
\* Notifications of a reassignment
\* ------------------------------------------------------------------------
\* The windows whose group the operation that produced S has changed.
Reassigned(S) == {w \in DOMAIN win : S.win[w].group # win[w].group}

\* The emissions of `type` for (group, window) during the operation.
EntriesOf(S, type, group, window) ==
    {i \in 1..Len(S.emitted) :
        /\ S.emitted[i].type = type
        /\ S.emitted[i].group = group
        /\ S.emitted[i].window = window}

\* What a listener of emission e reads: w already points at H, G has let go
\* of w, and G, if empty, has left the registry.
SeenDetached(e, w, G, H) ==
    /\ e.at.win[w].group = H
    /\ ~Includes(e.at.members[G], w)
    /\ e.at.members[G] = <<>> => ~Includes(e.at.groups, G)

\* ... and H's member list holds w.
SeenAttached(e, w, H) == Includes(e.at.members[H], w)

\* Every reassignment made by the operation is announced once on each signal,
\* and both listeners see the finished reassignment.
NotifiedWhenComplete(S) ==
    \A w \in Reassigned(S) :
        LET G == win[w].group
            H == S.win[w].group
            removed == EntriesOf(S, "onWindowRemoved", G, w)
            added == EntriesOf(S, "onWindowAdded", H, w)
        IN /\ Cardinality(removed) = 1
           /\ Cardinality(added) = 1
           /\ \A i \in removed \cup added :
                 SeenDetached(S.emitted[i], w, G, H) /\ SeenAttached(S.emitted[i], w, H)

\* The same, except that the listener of onWindowRemoved is not promised to
\* find w in H's member list.
NotifiedOnceEach(S) ==
    \A w \in Reassigned(S) :
        LET G == win[w].group
            H == S.win[w].group
            removed == EntriesOf(S, "onWindowRemoved", G, w)
            added == EntriesOf(S, "onWindowAdded", H, w)
        IN /\ Cardinality(removed) = 1
           /\ Cardinality(added) = 1
           /\ \A i \in removed : SeenDetached(S.emitted[i], w, G, H)
           /\ \A i \in added :
                 SeenDetached(S.emitted[i], w, G, H) /\ SeenAttached(S.emitted[i], w, H)

\* ------------------------------------------------------------------------
\* C9: for every reassignment of a window w from G to H by undock,
\* explodeGroup or commit, onWindowRemoved(G, w) and onWindowAdded(H, w) are
\* each emitted exactly once, and when each is emitted w.getGroup() is H,
\* G's member list lacks w, H's holds it, and G, if emptied, is not
\* registered.
\* ------------------------------------------------------------------------
C9_ReassignmentNotifications ==
    /\ \A target \in Identities :
          /\ NotifiedWhenComplete(undock(Heap, target))
          /\ NotifiedWhenComplete(explodeGroup(Heap, target))
    /\ \A a \in Range(groups) : \A t \in getSnapTarget(Heap, a) :
          NotifiedWhenComplete(applySnapTarget(Heap, a, t))

\* What the three operations do guarantee: one emission on each signal, the
\* window detached from G at both, attached to H only at onWindowAdded.
C9_RemovedBeforeAttached ==
    /\ \A target \in Identities :
          /\ NotifiedOnceEach(undock(Heap, target))
          /\ NotifiedOnceEach(explodeGroup(Heap, target))
    /\ \A a \in Range(groups) : \A t \in getSnapTarget(Heap, a) :
          NotifiedOnceEach(applySnapTarget(Heap, a, t))

\* ------------------------------------------------------------------------
\* C10: handling a transform notification (snapGroup), for any active group
\* and transform type, leaves both registries, every membership and every
\* window's rectangle unchanged; it only passes the resolver's result to the
\* view.
\* ------------------------------------------------------------------------
C10_TransformOnlyUpdatesView ==
    \A activeGroup \in Range(groups) : \A type \in TransformTypes :
        \A snapTarget \in getSnapTarget(Heap, activeGroup) :
            LET S == snapGroup(Heap, activeGroup, type, snapTarget)
            IN /\ SameHeap(S)
               /\ S.emitted = <<>>
               /\ S.view = [activeGroup |-> activeGroup, target |-> snapTarget]

\* A transform is handled while the resolver offers a VALID target for the
\* dragged group: the view is given that target and nothing moves.
C10_Witness ==
    \E activeGroup \in Range(groups) : \E snapTarget \in getSnapTarget(Heap, activeGroup) :
        /\ snapTarget # NoTarget /\ snapTarget.validity = "VALID"
        /\ snapGroup(Heap, activeGroup, 1, snapTarget).view.target = snapTarget
        /\ ~SameHeap(applySnapTarget(Heap, activeGroup, snapTarget))

\* ------------------------------------------------------------------------
\* C11: a commit for which the resolver returns no target, or a target whose
\* validity is not VALID, leaves the group registry, every membership and
\* every window's rectangle unchanged and still resets the view
\* (view.update(null, null)); no commit leaves the active group reassigned
\* part-way.
\* ------------------------------------------------------------------------
C11_CommitWithoutValidTarget ==
    \A a \in Range(groups) : \A t \in getSnapTarget(Heap, a) :
        LET S == applySnapTarget(Heap, a, t)
        IN /\ Reassigned(S) \in {{}, Range(members[a])}
           /\ (t = NoTarget \/ t.validity # "VALID") =>
                 /\ SameHeap(S)
                 /\ S.emitted = <<>>
                 /\ S.view = [activeGroup |-> NoGroup, target |-> NoTarget]

\* A group of two windows is committed while the resolver offers an INVALID
\* target: the view is reset and nothing else happens.
C11_Witness ==
    \E a \in Range(groups) : \E t \in getSnapTarget(Heap, a) :
        /\ t # NoTarget /\ t.validity = "INVALID"
        /\ Len(members[a]) = 2
        /\ applySnapTarget(Heap, a, t).view = [activeGroup |-> NoGroup, target |-> NoTarget]

\* ------------------------------------------------------------------------
\* C12: under every interleaving of the 'application-created' event, the
\* getAllApplications callback, getChildWindows callbacks, 'window-created'
\* events and the window-state fetches, the window registry never holds two
\* entries with the same (uuid, name), so an identity lookup resolves to at
\* most one window.
\* ------------------------------------------------------------------------
C12_RegistryIdentitiesUnique ==
    \A target \in Identities : Cardinality(WindowsOf(target)) <= 1

\* ------------------------------------------------------------------------
\* C13: a window is added to the window registry and to a group only after
\* its state fetch has resolved; if the fetch fails, no group is created, no
\* window is registered, the registries are unchanged, addWindow's promise is
\* rejected, and the registration is not attempted again.
\* ------------------------------------------------------------------------
\* The heap gains a window or a group member in this step.
WindowAdmitted ==
    \/ Len(windows') > Len(windows)
    \/ nextWin' > nextWin
    \/ \E g \in 1..Len(members') :
          \E w \in Range(members'[g]) : w \notin DOMAIN win

\* A failed fetch for identity: nothing is registered, the promise is
\* rejected, and no request is pending in its place.
FailedFetchLeavesNoTrace(identity) ==
    LET r == addWindowSettled(Heap, identity, Failed)
        H == fetchSettled(Host, identity)
    IN /\ SameHeap(r.heap)
       /\ r.heap.nextWin = nextWin
       /\ r.heap.emitted = <<>>
       /\ r.promise = "rejected"
       /\ H.fetches = BagRemove(fetches, identity)
       /\ H.childCbs = childCbs
       /\ H.createdListeners = createdListeners

C13_AdmissionOnlyAfterFetch ==
    /\ [](\A identity \in Identities :
             BagIn(identity, fetches) => FailedFetchLeavesNoTrace(identity))
    /\ [][WindowAdmitted =>
             \E identity \in Identities, state \in InitRects :
                 /\ BagIn(identity, fetches)
                 /\ WindowStateResolved(identity, state)]_vars

\* Windows are registered and a further fetch is pending whose failure
\* rejects the promise of addWindow.
C13_Witness ==
    /\ windows # <<>>
    /\ \E identity \in Identities :
          /\ BagIn(identity, fetches)
          /\ addWindowSettled(Heap, identity, Failed).promise = "rejected"

\* ------------------------------------------------------------------------
\* C14: in explodeGroup every calculateOffset call completes before the
\* first window is detached: each call runs over the complete pre-explode
\* member list, and the i-th window is displaced by the offset calculated
\* for the i-th window of that list.
\* ------------------------------------------------------------------------
C14_OffsetsBeforeDetaching ==
    \A target \in Identities :
        LET g == FindGroup(Heap, target)
            S == explodeGroup(Heap, target)
        IN (g # NoGroup /\ Len(members[g]) > 1) =>
              /\ Len(S.measured) = Len(members[g])
              /\ \A i \in 1..Len(members[g]) :
                    LET w == members[g][i]
                        call == S.measured[i]
                    IN /\ call.window = w
                       /\ call.against = members[g]
                       /\ call.emittedBefore = 0
                       /\ call.value = calculateOffset(Heap, w)
                       /\ S.win[w].state =
                             Translate(win[w].state,
                                       Point(Sign(call.value.x) * (UNDOCK_MOVE_SCALE \div 2),
                                             Sign(call.value.y) * (UNDOCK_MOVE_SCALE \div 2)))

\* A group of two windows that meet edge to edge is exploded: both offsets
\* are calculated, then both windows are detached.
C14_Witness ==
    \E target \in Identities :
        LET g == FindGroup(Heap, target)
            S == explodeGroup(Heap, target)
        IN /\ g # NoGroup
           /\ Len(members[g]) = 2
           /\ distance(win[members[g][1]].state, win[members[g][2]].state).x = 0
           /\ Len(S.measured) = 2
           /\ Len(S.emitted) = 4

\* ------------------------------------------------------------------------
\* C15: undock of a registered window translates it by a vector whose x and
\* y components each have magnitude UNDOCK_MOVE_SCALE (30): a component has
\* the sign of the repulsion offset's component, and is +30 when that
\* component is zero.
\* ------------------------------------------------------------------------
\* The component of undock's nudge for a component c of the repulsion offset.
Nudge(c) == IF c = 0 THEN UNDOCK_MOVE_SCALE ELSE Sign(c) * UNDOCK_MOVE_SCALE

FlushOnX(d) == d.x = 0 /\ d.y < 0
FlushOnY(d) == d.y = 0 /\ d.x < 0
TouchingAndOverlapping(d) == FlushOnX(d) \/ FlushOnY(d)

\* The magnitude of the overlap for a gap g (none when the gap is not negative).
Overlap(g) == IF g < 0 THEN -g ELSE 0

\* Sum over the members `rest` of the contributions the specification
\* describes for window w: sign of the centre difference, weighted by the
\* overlap on the other axis.
RECURSIVE WeightedSum(_, _)
WeightedSum(w, rest) ==
    IF rest = <<>> THEN Point(0, 0)
    ELSE LET o == Head(rest)
             d == distance(win[w].state, win[o].state)
             tail == WeightedSum(w, Tail(rest))
         IN IF o # w /\ TouchingAndOverlapping(d)
            THEN Point(tail.x + Sign(win[w].state.center.x - win[o].state.center.x) * Overlap(d.y),
                       tail.y + Sign(win[w].state.center.y - win[o].state.center.y) * Overlap(d.x))
            ELSE tail

\* ------------------------------------------------------------------------
\* C16: for a window w and its group, calculateOffset returns x = the sum,
\* over every other member o edge-touching w on one axis and overlapping it
\* on the other, of sign(w.center.x - o.center.x) times the magnitude of the
\* y overlap, and y = the symmetric sum; other members and w itself
\* contribute nothing.
\* ------------------------------------------------------------------------
C16_OffsetIsWeightedSum ==
    \A w \in Range(windows) :
        calculateOffset(Heap, w) = WeightedSum(w, members[win[w].group])

C18_CommitMovesGroupTogether ==
    \A a \in Range(groups) : \A t \in getSnapTarget(Heap, a) :
        (t # NoTarget /\ t.validity = "VALID") =>
            LET S == applySnapTarget(Heap, a, t)
            IN /\ \A w \in Range(members[a]) :
                     /\ S.win[w].state.center = Translate(win[w].state, t.snapOffset).center
                     /\ S.win[w].state.halfSize =
                           IF w = t.activeWindow /\ t.halfSize # NoPoint
                           THEN t.halfSize
                           ELSE win[w].state.halfSize
               /\ \A w, v \in Range(members[a]) :
                     /\ S.win[w].state.center.x - S.win[v].state.center.x
                           = win[w].state.center.x - win[v].state.center.x
                     /\ S.win[w].state.center.y - S.win[v].state.center.y
                           = win[w].state.center.y - win[v].state.center.y

\* A group of two windows is merged by a VALID commit whose target carries a
\* halfSize that neither window has: the anchor is resized, the other is not.
C18_Witness ==
    \E a \in Range(groups) : \E t \in getSnapTarget(Heap, a) :
        /\ t # NoTarget /\ t.validity = "VALID" /\ t.halfSize # NoPoint
        /\ Len(members[a]) = 2
        /\ \A w \in Range(members[a]) : win[w].state.halfSize # t.halfSize
        /\ \E w \in Range(members[a]) :
              applySnapTarget(Heap, a, t).win[w].state.halfSize # t.halfSize

C20_CloseRemovesWindowOnce ==
    \A w \in Range(windows) :
        LET S == windowEmitClose(Heap, w)
        IN /\ S.windows = Remove(windows, w)
           /\ ~Includes(S.windows, w)
           /\ Len(S.windows) = Len(windows) - 1
           /\ w \notin S.closeHandlers
           /\ onWindowClosed(S, w) = S
           /\ \A target \in Identities :
                 /\ FindWindow(S, target) # w
                 /\ FindGroup(S, target) # NoGroup =>
                       ~Includes(S.members[FindGroup(S, target)], w)

\* A window that is not the first registry entry closes while it shares a
\* group with another window.
C20_Witness ==
    \E w \in Range(windows) :
        /\ windows[1] # w
        /\ Len(members[win[w].group]) >= 2
        /\ ~Includes(windowEmitClose(Heap, w).windows, w)

\* ------------------------------------------------------------------------
\* Vocabulary of the preview properties
\* ------------------------------------------------------------------------
\* The preview window a target selects by its type and validity.
SelectedPreview(target) ==
    PreviewWindow(toLowerCase(target.type), IF target.valid THEN "valid" ELSE "invalid")

\* The opacity the configuration defines for the target's scope, type and validity.
ConfiguredOpacity(target) ==
    LET overlays == ConfigQuery(target.activeWindow.scope)
    IN overlays[toLowerCase(target.type)][IF target.valid THEN "valid" ELSE "invalid"].opacity

\* The opacity the host has for the target's preview window once show has returned.
OpacityAfterShow(target) ==
    show(PreviewHeap, target).nativeWindows[SelectedPreview(target)].opacity

\* The preview windows the host shows with a non-zero opacity.
Visible(P) == {w \in PreviewWindowNames : P.nativeWindows[w].opacity # 0}

\* ------------------------------------------------------------------------
\* C21: after show(target) returns, the preview window selected by the
\* target's type and validity has the opacity the configuration defines for
\* target.activeWindow.scope and that type and validity, whether or not the
\* scope's styles had been applied before the call.
\* ------------------------------------------------------------------------
C21_ShowGivesConfiguredOpacity ==
    \A target \in PreviewableTargets :
        OpacityAfterShow(target) = ConfiguredOpacity(target)

\* The same statement restricted to calls whose scope is the one applied
\* last: there the cached opacity is the configured one.
C21_ShowWhenStylesApplied ==
    \A target \in PreviewableTargets :
        deepEqual(lastScope, target.activeWindow.scope) =>
            OpacityAfterShow(target) = ConfiguredOpacity(target)

\* What show gives instead: the opacity cached before the call.
C21_ShowGivesCachedOpacity ==
    \A target \in PreviewableTargets :
        OpacityAfterShow(target) =
            previewWindows[toLowerCase(target.type)]
                          [IF target.valid THEN "valid" ELSE "invalid"].opacity

\* ------------------------------------------------------------------------
\* C22: after any sequence of show and hide calls at most one preview window
\* has a non-zero opacity, and it is the active preview; after hide returns
\* no preview window has a non-zero opacity and the active preview is null;
\* a second hide right after changes nothing.
\* ------------------------------------------------------------------------
C22_OnlyActivePreviewVisible ==
    /\ Cardinality(Visible(PreviewHeap)) <= 1
    /\ \A w \in Visible(PreviewHeap) : activeWindowPreview = w
    /\ LET P == hide(PreviewHeap)
       IN /\ Visible(P) = {}
          /\ P.activeWindowPreview = NoPreview
          /\ hide(P) = P

\* A preview window is active and visible, and show is called with a target
\* that selects another preview window and gives it a non-zero opacity: the
\* first is hidden, the second is the only visible one and the active one.
C22_Witness ==
    \E target \in PreviewableTargets :
        LET P == show(PreviewHeap, target)
        IN /\ activeWindowPreview # NoPreview
           /\ activeWindowPreview # SelectedPreview(target)
           /\ nativeWindows[activeWindowPreview].opacity # 0
           /\ Visible(P) = {SelectedPreview(target)}
           /\ P.activeWindowPreview = SelectedPreview(target)
           /\ hide(P).nativeWindows[SelectedPreview(target)].opacity = 0

====
